---- MODULE Spec2Model ----
(***************************************************************************)
(* Model of base_unet_pp (src/src/models/lib/base.py): the construction of *)
(* the UNet++ lattice, of its output heads and of the returned outputs.    *)
(* Strings are sequences of one-character strings, so that key formatting  *)
(* and key collisions are those of the program.  A tensor handle is the    *)
(* index, in the log `layers`, of the layer call that produced it.         *)
(***************************************************************************)
EXTENDS Integers, Sequences, FiniteSets, TLC

VARIABLES config, pc, err, model_dict, h_params, layers, insert_log,
          loop_pos, head_pos, output_lists, output_layer_name, result

vars == <<config, pc, err, model_dict, h_params, layers, insert_log,
          loop_pos, head_pos, output_lists, output_layer_name, result>>

\* ---------------------------------------------------------------- bounds
MaxDepth == 4
MaxHeads == 2

\* ------------------------------------------------- strings and Python lists
DigitChar == <<"0", "1", "2", "3", "4", "5", "6", "7", "8", "9">>

RECURSIVE Str(_)
\* str(n) / f"{n}" of a non-negative int
Str(n) == IF n < 10 THEN <<DigitChar[n + 1]>>
          ELSE Str(n \div 10) \o <<DigitChar[(n % 10) + 1]>>

RECURSIVE Flatten(_)
Flatten(ss) == IF ss = <<>> THEN <<>> ELSE Head(ss) \o Flatten(Tail(ss))

Max(a, b) == IF a >= b THEN a ELSE b

\* list(range(start, stop, step)) for step > 0
PyRange(start, stop, step) ==
    LET n == IF stop > start THEN (stop - start + step - 1) \div step ELSE 0
    IN  [t \in 1..n |-> start + (t - 1) * step]

\* lst[idx] for a 1-based TLA+ sequence and a Python index (negative = from the end)
PyIndex(lst, idx) == IF idx < 0 THEN lst[Len(lst) + idx + 1] ELSE lst[idx + 1]

PyIndexOk(lst, idx) == IF idx < 0 THEN -idx <= Len(lst) ELSE idx < Len(lst)

\* d[key] = v
Put(d, key, v) == [x \in (DOMAIN d) \cup {key} |-> IF x = key THEN v ELSE d[x]]

EmptyDict == <<>>

\* ------------------------------------------------------------ key formats
InputKey == <<"i", "n", "p", "u", "t">>

RootKey == <<"0", "0">>

node_name_func(i, j) == Str(i) \o Str(j)

HeadRead(node_num) == <<"0">> \o Str(node_num)

layer_name(out_name, nc, node_num) ==
    out_name \o Str(nc) \o <<"_", "o", "u", "t", "_">> \o Str(node_num)

activation(out_name) ==
    IF out_name = <<"b", "i", "n">> THEN "sigmoid"
    ELSE IF out_name = <<"m", "u", "l", "t">> THEN "softmax"
    ELSE "sigmoid"

\* ------------------------------------------------------------ configurations
HeadNames == {<<"b", "i", "n">>, <<"b", "i", "n", "1">>, <<"m", "u", "l", "t">>}

ChannelCounts == {1, 11}

HeadItems == [out_name : HeadNames, nc : ChannelCounts]

\* n_class: a dict, so an ordered list of items with distinct keys
NClassMaps ==
    {m \in UNION {[1..n -> HeadItems] : n \in 0..MaxHeads} :
        \A a, b \in DOMAIN m : a # b => m[a].out_name # m[b].out_name}

FilterLists == {[t \in 1..n |-> 8 * (2 ^ (t - 1))] : n \in {MaxDepth - 1, MaxDepth}}

IterationLists ==
    {[isNone |-> TRUE, val |-> <<>>]} \cup
    {[isNone |-> FALSE, val |-> [t \in 1..n |-> t + 1]] : n \in {MaxDepth - 1, MaxDepth}}

Configs ==
    [depth : 1..MaxDepth,
     filter_list : FilterLists,
     model_mode : {"basic", "mobile"},
     upsample_mode : {"bilinear"},
     batch_norm : {TRUE},
     downsample_iteration : IterationLists,
     n_class : NClassMaps,
     deep_supervision : BOOLEAN]

NoResult == [returned |-> FALSE, outputs |-> <<>>, selector |-> <<>>, scalar |-> FALSE]

Init ==
    /\ config \in Configs
    /\ pc = "start"
    /\ err = "none"
    /\ model_dict = EmptyDict
    /\ h_params = EmptyDict
    /\ layers = <<>>
    /\ insert_log = <<>>
    /\ loop_pos = 1
    /\ head_pos = 1
    /\ output_lists = <<>>
    /\ output_layer_name = <<>>
    /\ result = NoResult

\* config.filter_list[i]
FilterErr(i) == IF i + 1 > Len(config.filter_list) THEN "IndexError" ELSE "none"

\* config.downsample_iteration[i]
IterErr(i) ==
    IF config.downsample_iteration.isNone THEN "TypeError"
    ELSE IF i + 1 > Len(config.downsample_iteration.val) THEN "IndexError"
    ELSE "none"

\* model_mode_mapping[config.model_mode]["h_block"]
HBlockFn == IF config.model_mode = "basic" THEN "conv_bn_relu_block"
            ELSE "sequence_inv_res_bot_block"

HBlockParams ==
    IF config.model_mode = "basic"
    THEN Put(EmptyDict, "mode", config.upsample_mode)
    ELSE Put(Put(Put(EmptyDict, "strides", 1), "t_expansion", 6), "n_iter",
             IF ~config.downsample_iteration.isNone
             THEN config.downsample_iteration.val[1] ELSE 1)

\* the mapping literal evaluates downsample_iteration[0] whenever it is not None
MappingErr ==
    IF ~config.downsample_iteration.isNone /\ Len(config.downsample_iteration.val) = 0
    THEN "IndexError" ELSE "none"

\* one call of a layer constructor on input handles; its index in `layers` is its handle
Call(role, fn, name, i, j, params, inputs) ==
    [role |-> role, fn |-> fn, name |-> name, i |-> i, j |-> j, params |-> params,
     inputs |-> inputs]

Fail(e) == /\ pc' = "error"
           /\ err' = e

\* lines 49-83: mode resolution, the input placeholder and node "00"
Root ==
    /\ pc = "start"
    /\ IF MappingErr # "none"
       THEN /\ Fail(MappingErr)
            /\ UNCHANGED <<model_dict, h_params, layers, insert_log>>
       ELSE LET l1 == Append(layers, Call("input", "Input", InputKey, 0, 0, EmptyDict, <<>>))
                d1 == Put(model_dict, InputKey, Len(l1))
                p1 == Put(HBlockParams, "batch_norm", config.batch_norm)
            IN  IF FilterErr(0) # "none"
                THEN /\ Fail(FilterErr(0))
                     /\ model_dict' = d1
                     /\ layers' = l1
                     /\ insert_log' = Append(insert_log, InputKey)
                     /\ h_params' = p1
                ELSE LET p2 == Put(p1, "n_filter", config.filter_list[1])
                         l2 == Append(l1, Call("h", HBlockFn, RootKey, 0, 0, p2,
                                               <<d1[InputKey]>>))
                     IN  /\ model_dict' = Put(d1, RootKey, Len(l2))
                         /\ layers' = l2
                         /\ insert_log' = insert_log \o <<InputKey, RootKey>>
                         /\ h_params' = p2
                         /\ pc' = "lattice"
                         /\ err' = "none"
    /\ UNCHANGED <<config, loop_pos, head_pos, output_lists, output_layer_name, result>>

\* mutant: the inner range one short
InnerRange_short(depth, j) == Max(0, depth - j - 1)

\* line 86: range(max(0, config.depth - j))
InnerRange(depth, j) == Max(0, depth - j)

\* mutant: rows above level 0 visited with i descending
RowOrder_desc(depth, j) ==
    [t \in 1..Max(0, depth - j) |-> <<(IF j = 0 THEN t - 1 ELSE depth - j - t), j>>]

\* line 86: the values i takes within level j, in iteration order
RowOrder(depth, j) == [t \in 1..InnerRange(depth, j) |-> <<t - 1, j>>]

\* lines 85-86: the (i, j) pairs in the order the nested loops visit them
LoopOrder(depth) == Flatten([t \in 1..depth |-> RowOrder(depth, t - 1)])

\* line 119: the keys of the skip connections of node (i, j)
SkipKeys(i, j) == [t \in 1..j |-> node_name_func(i, t - 1)]

\* mutant: upsamples the node of the same skip level
UpKey_sameLevel(i, j) == node_name_func(i + 1, j)

\* line 116: the key of the node that is upsampled for node (i, j)
UpKey(i, j) == node_name_func(i + 1, j - 1)

\* line 93: the key of the node that is downsampled for node (i, 0)
DownKey(i, j) == node_name_func(i - 1, j)

\* mutant: the upsampled tensor put first
ConcatInputs_upFirst(skips, upsample) == <<upsample>> \o skips

\* lines 119-120: skip_list, then skip_list.append(upsample)
ConcatInputs(skips, upsample) == Append(skips, upsample)

Range(f) == {f[x] : x \in DOMAIN f}

\* the NodeMap keys that building node (i, j) reads
ReadsOf(i, j) ==
    IF j = 0 /\ i # 0 THEN {DownKey(i, j)}
    ELSE IF j > 0 THEN {UpKey(i, j)} \cup Range(SkipKeys(i, j))
    ELSE {}

\* lines 90-126: the layer the H block is applied to, or the error that stops the build
PreLayer(i, j) ==
    IF j = 0 /\ i # 0
    THEN IF DownKey(i, j) \notin DOMAIN model_dict
         THEN [err |-> "KeyError", layers |-> layers]
         ELSE IF config.model_mode = "basic"
         THEN [err |-> "none",
               layers |-> Append(layers, Call("down", "MaxPool2D", node_name_func(i, j), i, j,
                                              EmptyDict, <<model_dict[DownKey(i, j)]>>))]
         ELSE IF FilterErr(i) # "none"
         THEN [err |-> FilterErr(i), layers |-> layers]
         ELSE IF IterErr(i) # "none"
         THEN [err |-> IterErr(i), layers |-> layers]
         ELSE [err |-> "none",
               layers |-> Append(layers,
                   Call("down", "sequence_inv_res_bot_block", node_name_func(i, j), i, j,
                        [batch_norm |-> config.batch_norm,
                         n_filter |-> config.filter_list[i + 1],
                         strides |-> 2, t_expansion |-> 6,
                         n_iter |-> config.downsample_iteration.val[i + 1]],
                        <<model_dict[DownKey(i, j)]>>))]
    ELSE IF FilterErr(i) # "none"
         THEN [err |-> FilterErr(i), layers |-> layers]
         ELSE IF UpKey(i, j) \notin DOMAIN model_dict
         THEN [err |-> "KeyError", layers |-> layers]
         ELSE LET l1 == Append(layers,
                      Call("up", "upsample_block", node_name_func(i, j), i, j,
                           [n_filter |-> config.filter_list[i + 1],
                            batch_norm |-> config.batch_norm,
                            mode |-> config.upsample_mode],
                           <<model_dict[UpKey(i, j)]>>))
                  sk == SkipKeys(i, j)
              IN  IF \E t \in DOMAIN sk : sk[t] \notin DOMAIN model_dict
                  THEN [err |-> "KeyError", layers |-> l1]
                  ELSE [err |-> "none",
                        layers |-> Append(l1,
                            Call("concat", "Concatenate", node_name_func(i, j), i, j, EmptyDict,
                                 ConcatInputs([t \in DOMAIN sk |-> model_dict[sk[t]]],
                                              Len(l1))))]

\* mutant: n_filter left as the previous call set it
SetFilter_stale(p, i) == p

\* line 129: h_params["n_filter"] = config.filter_list[i]
SetFilter(p, i) == Put(p, "n_filter", config.filter_list[i + 1])

\* lines 130-131: in mobile mode h_params["n_iter"] = config.downsample_iteration[i]
SetIter(p, i) == Put(p, "n_iter", config.downsample_iteration.val[i + 1])

\* the loop counters after one iteration; the head loop follows the last one
Advance ==
    /\ loop_pos' = loop_pos + 1
    /\ IF loop_pos + 1 > Len(LoopOrder(config.depth))
       THEN pc' = "heads" ELSE pc' = "lattice"
    /\ err' = "none"

\* lines 87-132: one iteration of the lattice loops
BuildNode ==
    /\ pc = "lattice"
    /\ loop_pos <= Len(LoopOrder(config.depth))
    /\ LET i == LoopOrder(config.depth)[loop_pos][1]
           j == LoopOrder(config.depth)[loop_pos][2]
           node_name == node_name_func(i, j)
       IN  IF j = 0 /\ i = 0
           THEN /\ Advance
                /\ UNCHANGED <<model_dict, h_params, layers, insert_log>>
           ELSE LET pre == PreLayer(i, j) IN
                IF pre.err # "none"
                THEN /\ Fail(pre.err)
                     /\ layers' = pre.layers
                     /\ UNCHANGED <<model_dict, h_params, insert_log, loop_pos>>
                ELSE IF FilterErr(i) # "none"
                THEN /\ Fail(FilterErr(i))
                     /\ layers' = pre.layers
                     /\ UNCHANGED <<model_dict, h_params, insert_log, loop_pos>>
                ELSE LET p1 == SetFilter(h_params, i) IN
                     IF config.model_mode = "mobile" /\ IterErr(i) # "none"
                     THEN /\ Fail(IterErr(i))
                          /\ layers' = pre.layers
                          /\ h_params' = p1
                          /\ UNCHANGED <<model_dict, insert_log, loop_pos>>
                     ELSE LET p2 == IF config.model_mode = "mobile" THEN SetIter(p1, i) ELSE p1
                              l2 == Append(pre.layers,
                                           Call("h", HBlockFn, node_name, i, j, p2,
                                                <<Len(pre.layers)>>))
                          IN  /\ h_params' = p2
                              /\ layers' = l2
                              /\ model_dict' = Put(model_dict, node_name, Len(l2))
                              /\ insert_log' = Append(insert_log, node_name)
                              /\ Advance
    /\ UNCHANGED <<config, head_pos, output_lists, output_layer_name, result>>

\* mutant: range(0, config.depth)
HeadLevels_fromZero(depth) == [t \in 1..depth |-> t - 1]

\* line 143: range(1, config.depth)
HeadLevels(depth) == [t \in 1..(depth - 1) |-> t]

\* lines 142-143: the (head, node_num) pairs in the order the head loops visit them
HeadOrder(n_class, depth) ==
    Flatten([h \in 1..Len(n_class) |->
                [t \in 1..Len(HeadLevels(depth)) |-> <<h, HeadLevels(depth)[t]>>]])

\* lines 144-154: one iteration of the output-head loops
BuildHead ==
    /\ pc = "heads"
    /\ head_pos <= Len(HeadOrder(config.n_class, config.depth))
    /\ LET h == HeadOrder(config.n_class, config.depth)[head_pos][1]
           node_num == HeadOrder(config.n_class, config.depth)[head_pos][2]
           out_name == config.n_class[h].out_name
           nc == config.n_class[h].nc
           key == layer_name(out_name, nc, node_num)
       IN  IF HeadRead(node_num) \notin DOMAIN model_dict
           THEN /\ Fail("KeyError")
                /\ UNCHANGED <<model_dict, layers, insert_log, head_pos,
                               output_lists, output_layer_name>>
           ELSE LET l1 == Append(layers,
                        Call("head", "Conv2D", key, 0, node_num,
                             [filters |-> nc, kernel_size |-> 1,
                              activation |-> activation(out_name)],
                             <<model_dict[HeadRead(node_num)]>>))
                    d1 == Put(model_dict, key, Len(l1))
                IN  /\ layers' = l1
                    /\ model_dict' = d1
                    /\ insert_log' = Append(insert_log, key)
                    /\ output_lists' = Append(output_lists, d1[key])
                    /\ output_layer_name' = Append(output_layer_name, key)
                    /\ head_pos' = head_pos + 1
                    /\ UNCHANGED <<pc, err>>
    /\ UNCHANGED <<config, h_params, loop_pos, result>>

\* lines 164-166: [i - 1 for i in range(0, (depth - 1) * n_head + 1, depth - 1)]
non_deep_supervision_output_index(depth, n_head) ==
    LET r == PyRange(0, (depth - 1) * n_head + 1, depth - 1)
    IN  [t \in DOMAIN r |-> r[t] - 1]

\* mutant: lst[0]
SelectSingle_first(lst) == PyIndex(lst, 0)

\* lines 171, 177: lst[-1]
SelectSingle(lst) == PyIndex(lst, -1)

\* mutant: the first head's index dropped too
SelectMulti_dropHead(lst, index_list) ==
    [t \in 1..(Len(index_list) - 2) |-> PyIndex(lst, index_list[t + 2])]

\* lines 173-175, 179-181: [lst[index] for index in index_list[1:]]
SelectMulti(lst, index_list) ==
    [t \in 1..(Len(index_list) - 1) |-> PyIndex(lst, index_list[t + 1])]

Return(outputs, selector, scalar) ==
    /\ result' = [returned |-> TRUE, outputs |-> outputs, selector |-> selector,
                  scalar |-> scalar]
    /\ pc' = "returned"
    /\ err' = "none"

\* lines 156-182: the choice of the outputs and of the selector
Select ==
    /\ pc = "heads"
    /\ head_pos > Len(HeadOrder(config.n_class, config.depth))
    /\ IF config.deep_supervision
       THEN Return(output_lists, output_layer_name, FALSE)
       ELSE LET n_head == Len(config.n_class) IN
            IF config.depth - 1 = 0
            THEN /\ Fail("ValueError")
                 /\ UNCHANGED result
            ELSE LET idx == non_deep_supervision_output_index(config.depth, n_head) IN
                 IF n_head = 1
                 THEN IF ~PyIndexOk(output_lists, -1)
                      THEN /\ Fail("IndexError")
                           /\ UNCHANGED result
                      ELSE Return(<<SelectSingle(output_lists)>>,
                                  <<SelectSingle(output_layer_name)>>, TRUE)
                 ELSE IF \E t \in 2..Len(idx) : ~PyIndexOk(output_lists, idx[t])
                      THEN /\ Fail("IndexError")
                           /\ UNCHANGED result
                      ELSE Return(SelectMulti(output_lists, idx),
                                  SelectMulti(output_layer_name, idx), FALSE)
    /\ UNCHANGED <<config, model_dict, h_params, layers, insert_log, loop_pos, head_pos,
                   output_lists, output_layer_name>>

Next == Root \/ BuildNode \/ BuildHead \/ Select

Spec == Init /\ [][Next]_vars

\* ---------------------------------------------------------------- properties
Terminal == pc \in {"returned", "error"}

\* the configuration meets the data model: lists long enough, mobile has iterations
ValidConfig ==
    /\ Len(config.filter_list) >= config.depth
    /\ config.model_mode = "mobile" =>
          /\ ~config.downsample_iteration.isNone
          /\ Len(config.downsample_iteration.val) >= config.depth

\* the index set of the lattice of depth D
LatticeIndex(D) == {ij \in (0..(D - 1)) \X (0..(D - 1)) : ij[1] < D - ij[2]}

LatticeDone == pc # "start" /\ loop_pos > Len(LoopOrder(config.depth))

IsDigits(key) == \A t \in DOMAIN key : key[t] \in Range(DigitChar)

LatticeKeys == {key \in DOMAIN model_dict : IsDigits(key)}

HLayers == {n \in DOMAIN layers : layers[n].role = "h"}

IsNode(n, i, j) == /\ n \in DOMAIN layers
                   /\ layers[n].role = "h"
                   /\ layers[n].i = i
                   /\ layers[n].j = j

Inserted(key) == \E t \in DOMAIN insert_log : insert_log[t] = key

Pos(key) == CHOOSE t \in DOMAIN insert_log : insert_log[t] = key

CurNode == LoopOrder(config.depth)[loop_pos]

CurHead == HeadOrder(config.n_class, config.depth)[head_pos]

\* the keys the claim says building node (i, j) reads
ClaimedReads(i, j) ==
    IF j = 0 /\ i > 0 THEN {node_name_func(i - 1, 0)}
    ELSE IF j > 0
    THEN {node_name_func(i + 1, j - 1)} \cup {node_name_func(i, k) : k \in 0..(j - 1)}
    ELSE {}

C2_ConcatInputs ==
    \A n \in HLayers :
        layers[n].j > 0 =>
            LET i == layers[n].i
                j == layers[n].j
                c == layers[n].inputs[1]
            IN  /\ Len(layers[n].inputs) = 1
                /\ layers[c].role = "concat"
                /\ Len(layers[c].inputs) = j + 1
                /\ \A k \in 0..(j - 1) : IsNode(layers[c].inputs[k + 1], i, k)
                /\ layers[layers[c].inputs[j + 1]].role = "up"
                /\ Len(layers[layers[c].inputs[j + 1]].inputs) = 1
                /\ IsNode(layers[layers[c].inputs[j + 1]].inputs[1], i + 1, j - 1)

C2_Witness == \E n \in HLayers : layers[n].j >= 2 /\ layers[n].i >= 1

\* C3: when the lattice loops have finished, the NodeMap holds exactly the
\* D*(D+1)/2 nodes (i,j), 0 <= j < D, 0 <= i < D-j, each under its own NodeId.
C3_LatticeNodes ==
    LatticeDone =>
        LET D == config.depth IN
        /\ LatticeKeys = {node_name_func(ij[1], ij[2]) : ij \in LatticeIndex(D)}
        /\ 2 * Cardinality(LatticeKeys) = D * (D + 1)
        /\ 2 * Cardinality(HLayers) = D * (D + 1)
        /\ \A ij \in LatticeIndex(D) :
              IsNode(model_dict[node_name_func(ij[1], ij[2])], ij[1], ij[2])

C3_Witness == LatticeDone /\ config.depth >= 3 /\ pc = "heads"

\* what the head of n_class item h at level node_num is: a Conv2D layer of that name
\* applied to node (0, node_num)
IsHead(n, h, node_num) ==
    /\ n \in DOMAIN layers
    /\ layers[n].role = "head"
    /\ layers[n].name = layer_name(config.n_class[h].out_name, config.n_class[h].nc, node_num)
    /\ layers[n].params.filters = config.n_class[h].nc
    /\ Len(layers[n].inputs) = 1
    /\ IsNode(layers[n].inputs[1], 0, node_num)

SingleHeadResult ==
    /\ pc = "returned"
    /\ result.returned
    /\ Len(result.outputs) = 1
    /\ result.outputs[1] = output_lists[Len(output_lists)]
    /\ IsHead(result.outputs[1], 1, config.depth - 1)
    /\ result.scalar
    /\ result.selector = <<layers[result.outputs[1]].name>>

C5_Original ==
    (pc = "returned" /\ ~config.deep_supervision /\ Len(config.n_class) > 1) =>
        /\ Len(result.outputs) = Len(config.n_class) - 1
        /\ Len(result.selector) = Len(config.n_class) - 1
        /\ \A h \in 2..Len(config.n_class) :
              /\ IsHead(result.outputs[h - 1], h, config.depth - 1)
              /\ result.selector[h - 1] = layers[result.outputs[h - 1]].name

\* C5 amended: without deep supervision and with more than one head, the returned
\* outputs and names are the deepest output (node_num = depth-1) of every head, the
\* first included, in n_class order.
C5_MultiHead ==
    /\ (Terminal /\ ValidConfig /\ config.depth >= 2 /\ ~config.deep_supervision
           /\ Len(config.n_class) > 1) => pc = "returned"
    /\ (pc = "returned" /\ ~config.deep_supervision /\ Len(config.n_class) > 1) =>
        /\ ~result.scalar
        /\ Len(result.outputs) = Len(config.n_class)
        /\ Len(result.selector) = Len(config.n_class)
        /\ \A h \in 1..Len(config.n_class) :
              /\ IsHead(result.outputs[h], h, config.depth - 1)
              /\ result.outputs[h] = output_lists[h * (config.depth - 1)]
              /\ result.selector[h] = layers[result.outputs[h]].name

C5_Witness ==
    /\ pc = "returned"
    /\ ~config.deep_supervision
    /\ Len(config.n_class) >= 2
    /\ config.depth >= 3

\* C6: with deep supervision the returned model has len(n_class) * (depth-1) outputs,
\* the name list has the same length, and name k names output k: heads in n_class
\* order and, within a head, node_num ascending from 1 to depth-1.
C6_DeepSupervision ==
    /\ (Terminal /\ ValidConfig /\ config.deep_supervision) => pc = "returned"
    /\ (pc = "returned" /\ config.deep_supervision) =>
          LET D == config.depth IN
          /\ Len(result.outputs) = Len(config.n_class) * (D - 1)
          /\ Len(result.selector) = Len(result.outputs)
          /\ ~result.scalar
          /\ \A k \in 1..Len(result.outputs) :
                /\ result.selector[k] = layers[result.outputs[k]].name
                /\ IsHead(result.outputs[k], ((k - 1) \div (D - 1)) + 1,
                          ((k - 1) % (D - 1)) + 1)

C6_Witness ==
    /\ pc = "returned"
    /\ config.deep_supervision
    /\ Len(config.n_class) = 2
    /\ config.depth >= 3

\* C7 as stated: in mobile mode without downsample_iteration the build fails before
\* any layer is constructed: the NodeMap stays empty and no model is returned.
C7_Original ==
    (config.model_mode = "mobile" /\ config.downsample_iteration.isNone) =>
        /\ DOMAIN model_dict = {}
        /\ layers = <<>>
        /\ ~result.returned
        /\ Terminal => pc = "error"

\* C8 as stated: during one build no NodeMap key is assigned more than once.
C8_Original ==
    \A a, b \in DOMAIN insert_log : a # b => insert_log[a] # insert_log[b]

\* C9 as stated: within a skip level j the nodes are inserted with i descending,
\* and every node of level j is inserted before any node of level j+1.
C9_Original ==
    \A p, q \in LatticeIndex(config.depth) :
        (Inserted(node_name_func(p[1], p[2])) /\ Inserted(node_name_func(q[1], q[2]))) =>
            /\ (p[2] = q[2] /\ p[1] > q[1]) =>
                  Pos(node_name_func(p[1], p[2])) < Pos(node_name_func(q[1], q[2]))
            /\ (q[2] = p[2] + 1) =>
                  Pos(node_name_func(p[1], p[2])) < Pos(node_name_func(q[1], q[2]))

\* C9 amended: the lattice nodes are built with j ascending and, within each j, i
\* ascending: of two nodes (i1,j), (i2,j) with i1 < i2, node (i1,j) is inserted
\* first, and every node of level j is inserted before any node of level j+1.
C9_BuildOrder ==
    \A p, q \in LatticeIndex(config.depth) :
        (Inserted(node_name_func(p[1], p[2])) /\ Inserted(node_name_func(q[1], q[2]))) =>
            /\ (p[2] = q[2] /\ p[1] < q[1]) =>
                  Pos(node_name_func(p[1], p[2])) < Pos(node_name_func(q[1], q[2]))
            /\ (q[2] = p[2] + 1) =>
                  Pos(node_name_func(p[1], p[2])) < Pos(node_name_func(q[1], q[2]))

C9_Witness ==
    /\ Inserted(node_name_func(0, 1))
    /\ Inserted(node_name_func(1, 1))
    /\ Inserted(node_name_func(0, 2))

\* C10: the H block of node (i,j) receives n_filter = filter_list[i] and, in mobile
\* mode, n_iter = downsample_iteration[i] (the root included when
\* downsample_iteration is present): no value set for an earlier node is carried over.
C10_HBlockParams ==
    \A n \in HLayers :
        /\ layers[n].params["n_filter"] = config.filter_list[layers[n].i + 1]
        /\ (config.model_mode = "mobile"
               /\ ~(config.downsample_iteration.isNone /\ layers[n].name = RootKey)) =>
              /\ ~config.downsample_iteration.isNone
              /\ layers[n].params["n_iter"] =
                    config.downsample_iteration.val[layers[n].i + 1]

C10_Witness ==
    /\ config.model_mode = "mobile"
    /\ \E n, m \in HLayers :
          /\ n < m
          /\ layers[n].i = 2
          /\ layers[m].i = 0
          /\ layers[m].j = 1
====
